---- MODULE Spec2Model ----
(***************************************************************************)
(* Model of cli.js, a static site generator: the renderer (layout merge    *)
(* and single substitution pass), the pretty-URL path mapper, the build    *)
(* orchestrator and the debounced dev loop.                                *)
(*                                                                         *)
(* A text is a sequence of one-character strings, so that the regular      *)
(* expressions of the source are matched character by character.           *)
(***************************************************************************)
EXTENDS Integers, Sequences, FiniteSets, TLC

VARIABLES
    templateCache,  \* cli.js:69   logical name -> raw template text
    storeWriters,   \* history: the builds that reset or wrote templateCache since its last reset
    htmlBody,       \* cli.js:118  the page's HTML fragment given to renderPage
    frontmatter,    \* cli.js:116  the page's metadata map (own keys)
    merged,         \* cli.js:129  layout text after the content replacement
    rendered,       \* cli.js:134  outcome of renderPage
    rpc,            \* position of the render call: "ready" | "done"
    filename,       \* cli.js:140  argument of outputPathForPage
    outPath,        \* cli.js:142  its result
    ppc,            \* position of the path mapper call: "ready" | "done"
    proc,           \* cli.js:22   the command run and whether the process has exited
    pages,          \* cli.js:12   the page files on disk
    srcLayouts,     \* cli.js:13   names of the layout files on disk
    dist,           \* cli.js:15   files of the output directory: path -> content
    distDirs,       \* cli.js:214  directories of the output directory
    builds,         \* cli.js:254  the build() calls made so far, in order
    timers,         \* cli.js:274  pending timeouts: id -> remaining ms
    rebuildTimer,   \* cli.js:269  id of the timeout set last, 0 for null
    reloadClients,  \* cli.js:148  array of the open reload channels
    channels,       \* cli.js:152  state of each reload channel
    received,       \* cli.js:169  reload events written to each channel
    serving,        \* cli.js:285  dev() has started the server and the watcher
    nEvents,        \* number of watcher events so far
    sinceLast,      \* ms since the last watcher event, capped at DEBOUNCE_MS
    bursts,         \* history: the bursts of watcher events
    lastGood        \* history: the output directory as the last successful build left it

callVars == <<htmlBody, frontmatter, merged, rendered, rpc>>
renderVars == <<templateCache, storeWriters, callVars>>
pathVars == <<filename, outPath, ppc>>
devVars == <<proc, pages, srcLayouts, dist, distDirs, builds, timers, rebuildTimer, reloadClients,
             channels, received, serving, nEvents, sinceLast, bursts, lastGood>>
vars == <<renderVars, pathVars, devVars>>

(***************************************************************************)
(* Characters and character classes of the regular expressions.            *)
(***************************************************************************)
LowerSeq == <<"a", "b", "c", "d", "e", "f", "g", "h", "i", "j", "k", "l", "m",
              "n", "o", "p", "q", "r", "s", "t", "u", "v", "w", "x", "y", "z">>

UpperSeq == <<"A", "B", "C", "D", "E", "F", "G", "H", "I", "J", "K", "L", "M",
              "N", "O", "P", "Q", "R", "S", "T", "U", "V", "W", "X", "Y", "Z">>

DigitChars == {"0", "1", "2", "3", "4", "5", "6", "7", "8", "9"}

\* [a-zA-Z0-9_\/-]
IdentChars ==
    {LowerSeq[i] : i \in 1..26} \cup {UpperSeq[i] : i \in 1..26}
        \cup DigitChars \cup {"_", "/", "-"}

\* \s
SpaceChars == {" ", "\t", "\n"}

\* case folding of the i flag
Canonicalize(c) ==
    IF \E i \in 1..26 : UpperSeq[i] = c
    THEN LowerSeq[CHOOSE i \in 1..26 : UpperSeq[i] = c]
    ELSE c

S_open == <<"{", "{">>
S_close == <<"}", "}">>
S_content == <<"c", "o", "n", "t", "e", "n", "t">>
S_default == <<"d", "e", "f", "a", "u", "l", "t">>
S_layout == <<"l", "a", "y", "o", "u", "t">>
S_layoutsDir == <<"l", "a", "y", "o", "u", "t", "s", "/">>
S_dotHtml == <<".", "h", "t", "m", "l">>
S_dotMd == <<".", "m", "d">>
S_index == <<"i", "n", "d", "e", "x">>
S_indexHtml == <<"i", "n", "d", "e", "x", ".", "h", "t", "m", "l">>
S_errHead == <<"L", "a", "y", "o", "u", "t", " ", "\"">>
S_errMid == <<"\"", " ", "n", "o", "t", " ", "f", "o", "u", "n", "d", ".", " ",
              "C", "r", "e", "a", "t", "e", " ", "s", "r", "c", "/",
              "l", "a", "y", "o", "u", "t", "s", "/">>

\* s has the literal lit at position i
HasAt(s, i, lit) ==
    \A k \in 1..Len(lit) : i + k - 1 <= Len(s) /\ s[i + k - 1] = lit[k]

\* the same, ignoring case
HasAtFold(s, i, lit) ==
    \A k \in 1..Len(lit) :
        i + k - 1 <= Len(s) /\ Canonicalize(s[i + k - 1]) = lit[k]

\* first position at or after i whose character is outside class (greedy X*)
RECURSIVE SkipClass(_, _, _)
SkipClass(s, i, class) ==
    IF i <= Len(s) /\ s[i] \in class THEN SkipClass(s, i + 1, class) ELSE i

\* CONTENT_REGEX anchored at i: the position after the match, 0 if none
ContentMatchEnd(s, i) ==
    IF ~HasAt(s, i, S_open) THEN 0
    ELSE LET j == SkipClass(s, i + 2, SpaceChars)
         IN  IF ~HasAtFold(s, j, S_content) THEN 0
             ELSE LET k == SkipClass(s, j + Len(S_content), SpaceChars)
                  IN  IF HasAt(s, k, S_close) THEN k + 2 ELSE 0

\* PARTIAL_REGEX anchored at i: the position after the match (0 if none) and
\* the capture group
PartialMatch(s, i) ==
    IF ~HasAt(s, i, S_open) THEN [end |-> 0, name |-> <<>>]
    ELSE LET j == SkipClass(s, i + 2, SpaceChars)
             k == SkipClass(s, j, IdentChars)
             l == SkipClass(s, k, SpaceChars)
         IN  IF k > j /\ HasAt(s, l, S_close)
             THEN [end |-> l + 2, name |-> SubSeq(s, j, k - 1)]
             ELSE [end |-> 0, name |-> <<>>]

(***************************************************************************)
(* String.prototype.replace with a string replacement: the replacement     *)
(* text is expanded per match (GetSubstitution); the patterns have no      *)
(* capture group here, so $1..$9 stay literal.                             *)
(***************************************************************************)
RECURSIVE GetSubstitution(_, _, _, _, _)
GetSubstitution(matched, str, position, replacement, k) ==
    IF k > Len(replacement) THEN <<>>
    ELSE IF replacement[k] = "$" /\ k < Len(replacement)
         THEN LET d == replacement[k + 1]
              IN  CASE d = "$" ->
                         <<"$">> \o GetSubstitution(matched, str, position, replacement, k + 2)
                    [] d = "&" ->
                         matched \o GetSubstitution(matched, str, position, replacement, k + 2)
                    [] d = "`" ->
                         SubSeq(str, 1, position - 1)
                             \o GetSubstitution(matched, str, position, replacement, k + 2)
                    [] d = "'" ->
                         SubSeq(str, position + Len(matched), Len(str))
                             \o GetSubstitution(matched, str, position, replacement, k + 2)
                    [] OTHER ->
                         <<"$">> \o GetSubstitution(matched, str, position, replacement, k + 1)
         ELSE <<replacement[k]>> \o GetSubstitution(matched, str, position, replacement, k + 1)

\* layoutHtml.replace(CONTENT_REGEX, htmlBody), scanning from position i
RECURSIVE replaceContent(_, _, _)
replaceContent(layoutHtml, body, i) ==
    IF i > Len(layoutHtml) THEN <<>>
    ELSE LET e == ContentMatchEnd(layoutHtml, i)
         IN  IF e = 0
             THEN <<layoutHtml[i]>> \o replaceContent(layoutHtml, body, i + 1)
             ELSE GetSubstitution(SubSeq(layoutHtml, i, e - 1), layoutHtml, i, body, 1)
                      \o replaceContent(layoutHtml, body, e)

(***************************************************************************)
(* applyTemplates: one replace pass with a callback.                       *)
(***************************************************************************)
S_constructor == <<"c", "o", "n", "s", "t", "r", "u", "c", "t", "o", "r">>
S_fnObject == <<"f", "u", "n", "c", "t", "i", "o", "n", " ", "O", "b", "j", "e", "c", "t",
                "(", ")", " ", "{", " ", "[", "n", "a", "t", "i", "v", "e", " ",
                "c", "o", "d", "e", "]", " ", "}">>

\* The metadata object is a plain object: a property read that misses the
\* own keys continues on Object.prototype.  The value is given as the text
\* the replace callback's result is converted to.
ObjectPrototype == (S_constructor :> S_fnObject)

\* data[name] !== undefined
dataDefined(data, name) ==
    name \in DOMAIN data \/ name \in DOMAIN ObjectPrototype

\* data[name]
dataGet(data, name) ==
    IF name \in DOMAIN data THEN data[name] ELSE ObjectPrototype[name]

\* if (templateCache[name]): the cache has no prototype; "" is falsy
cacheTruthy(name) ==
    name \in DOMAIN templateCache /\ templateCache[name] # <<>>

\* the callback (match, name) => ...
replacer(match, name, data) ==
    IF cacheTruthy(name) THEN templateCache[name]
    ELSE IF dataDefined(data, name) THEN dataGet(data, name)
    ELSE match

RECURSIVE applyTemplatesFrom(_, _, _)
applyTemplatesFrom(html, data, i) ==
    IF i > Len(html) THEN <<>>
    ELSE LET m == PartialMatch(html, i)
         IN  IF m.end = 0
             THEN <<html[i]>> \o applyTemplatesFrom(html, data, i + 1)
             ELSE replacer(SubSeq(html, i, m.end - 1), m.name, data)
                      \o applyTemplatesFrom(html, data, m.end)

\* a variant that scans the substituted text a second time
applyTemplatesRescan(html, data) ==
    applyTemplatesFrom(applyTemplatesFrom(html, data, 1), data, 1)

applyTemplates(html, data) == applyTemplatesFrom(html, data, 1)

(***************************************************************************)
(* renderPage, from the HTML fragment on (marked.parse is external).       *)
(***************************************************************************)
\* frontmatter.layout || "default"
layoutNameOf(fm) ==
    IF S_layout \in DOMAIN fm /\ fm[S_layout] # <<>> THEN fm[S_layout] ELSE S_default

layoutKeyOf(fm) == S_layoutsDir \o layoutNameOf(fm)

renderPage(body, fm) ==
    LET layoutName == layoutNameOf(fm)
        key == S_layoutsDir \o layoutName
    IN  IF ~cacheTruthy(key)
        THEN [ok |-> FALSE,
              merged |-> <<>>,
              html |-> <<>>,
              message |-> S_errHead \o layoutName \o S_errMid \o layoutName \o S_dotHtml]
        ELSE LET m == replaceContent(templateCache[key], body, 1)
             IN  [ok |-> TRUE,
                  merged |-> m,
                  html |-> applyTemplates(m, fm),
                  message |-> <<>>]

(***************************************************************************)
(* Pretty URL logic.  A path is a text with "/" between its segments.      *)
(***************************************************************************)
EndsWith(s, suffix) ==
    Len(s) >= Len(suffix) /\ HasAt(s, Len(s) - Len(suffix) + 1, suffix)

\* filename.replace(/\.(md|html)$/, "")
stripPageExt(s) ==
    IF EndsWith(s, S_dotMd) THEN SubSeq(s, 1, Len(s) - Len(S_dotMd))
    ELSE IF EndsWith(s, S_dotHtml) THEN SubSeq(s, 1, Len(s) - Len(S_dotHtml))
    ELSE s

\* path.join of two normalized relative paths
pathJoin(a, b) ==
    IF a = <<>> THEN b ELSE IF b = <<>> THEN a ELSE a \o <<"/">> \o b

outputPathForPage(fname) ==
    LET name == stripPageExt(fname)
    IN  IF name = S_index THEN S_indexHtml ELSE pathJoin(name, S_indexHtml)

\* the relative path of a file given by its directory segments, base name
\* and extension (path.relative, cli.js:56)
RECURSIVE joinSegments(_)
joinSegments(segs) ==
    IF segs = <<>> THEN <<>>
    ELSE pathJoin(joinSegments(SubSeq(segs, 1, Len(segs) - 1)), segs[Len(segs)])

relativePath(file) == pathJoin(joinSegments(file.dir), file.base \o file.ext)

(***************************************************************************)
(* Bounded inputs.                                                         *)
(***************************************************************************)
MaxPieces == 2
MaxDepth == 2

S_title == <<"t", "i", "t", "l", "e">>
S_header == <<"h", "e", "a", "d", "e", "r">>
S_author == <<"a", "u", "t", "h", "o", "r">>
S_blog == <<"b", "l", "o", "g">>
S_about == <<"a", "b", "o", "u", "t">>
S_post == <<"p", "o", "s", "t">>
S_Index == <<"I", "n", "d", "e", "x">>

T_content == <<"{", "{", "c", "o", "n", "t", "e", "n", "t", "}", "}">>
T_CONTENT == <<"{", "{", " ", "C", "O", "N", "T", "E", "N", "T", " ", "}", "}">>
T_title == <<"{", "{", " ", "t", "i", "t", "l", "e", " ", "}", "}">>
T_header == <<"{", "{", "h", "e", "a", "d", "e", "r", "}", "}">>
T_author == <<"{", "{", "\t", "a", "u", "t", "h", "o", "r", " ", " ", "}", "}">>
T_constructor == <<"{", "{", "c", "o", "n", "s", "t", "r", "u", "c", "t", "o", "r", "}", "}">>

\* texts a layout file is made of
LayoutPieces ==
    {T_content, T_CONTENT, T_title, T_header, T_author, T_constructor, <<"x">>}

\* all concatenations of at most n pieces
RECURSIVE Texts(_, _)
Texts(pieces, n) ==
    IF n = 0 THEN {<<>>}
    ELSE LET shorter == Texts(pieces, n - 1)
         IN  shorter \cup {t \o p : t \in shorter, p \in pieces}

LayoutTexts == Texts(LayoutPieces, MaxPieces)

\* HTML fragments of a page
Bodies == {<<>>, <<"<", "b", ">">>, <<"a", "$", "&">>, <<"$", "$">>, T_title}

\* partial files: none, an empty one, one whose text holds a token
TitlePartials ==
    {<<>>, (S_title :> <<>>), (S_title :> (<<"P">> \o T_title))}

HeaderPartials == {<<>>, (S_header :> (T_title \o <<"h">>))}

\* metadata headers
\* metadata headers; the value itself holds a token
TitleData == {<<>>, (S_title :> (<<"T">> \o T_header))}

LayoutData == {<<>>, (S_layout :> <<>>), (S_layout :> S_blog)}

\* the layout file of the site: none, default.html or blog.html
LayoutFiles(text) ==
    {<<>>, ((S_layoutsDir \o S_default) :> text), ((S_layoutsDir \o S_blog) :> text)}

PathSegments == {S_blog, S_index}

RECURSIVE Dirs(_)
Dirs(n) ==
    IF n = 0 THEN {<<>>}
    ELSE LET shorter == Dirs(n - 1)
         IN  shorter \cup {d \o <<seg>> : d \in shorter, seg \in PathSegments}

PageFiles ==
    [dir : Dirs(MaxDepth), base : {S_index, S_Index, S_about, S_post},
     ext : {S_dotMd, S_dotHtml}]

NoResult == [ok |-> FALSE, merged |-> <<>>, html |-> <<>>, message |-> <<>>]
NoFile == [dir |-> <<>>, base |-> <<>>, ext |-> <<>>]

(***************************************************************************)
(* The renderer as a state machine: a template store and a page are        *)
(* given, renderPage is applied once.                                      *)
(***************************************************************************)
PathIdle == filename = NoFile /\ outPath = <<>> /\ ppc = "off"

\* the dev loop is not running
DevIdle ==
    /\ proc = "off"
    /\ pages = {}
    /\ srcLayouts = {}
    /\ dist = <<>>
    /\ distDirs = {}
    /\ builds = <<>>
    /\ timers = <<>>
    /\ rebuildTimer = 0
    /\ reloadClients = <<>>
    /\ channels = <<>>
    /\ received = <<>>
    /\ serving = FALSE
    /\ nEvents = 0
    /\ sinceLast = 0
    /\ bursts = <<>>
    /\ lastGood = <<>>

RenderCallIdle ==
    /\ htmlBody = <<>>
    /\ frontmatter = <<>>
    /\ merged = <<>>
    /\ rendered = NoResult
    /\ rpc = "off"

RenderIdle ==
    /\ templateCache = <<>>
    /\ storeWriters = {}
    /\ RenderCallIdle

InitRender ==
    /\ \E text \in LayoutTexts :
        \E lf \in LayoutFiles(text), tp \in TitlePartials, hp \in HeaderPartials :
            templateCache = lf @@ tp @@ hp
    /\ storeWriters = {}
    /\ htmlBody \in Bodies
    /\ \E td \in TitleData, ld \in LayoutData : frontmatter = td @@ ld
    /\ merged = <<>>
    /\ rendered = NoResult
    /\ rpc = "ready"
    /\ PathIdle
    /\ DevIdle

RenderPage ==
    /\ rpc = "ready"
    /\ LET r == renderPage(htmlBody, frontmatter)
       IN  /\ rendered' = r
           /\ merged' = r.merged
    /\ rpc' = "done"
    /\ UNCHANGED <<templateCache, storeWriters, htmlBody, frontmatter, pathVars, devVars>>

NextRender == RenderPage

SpecRender == InitRender /\ [][NextRender]_vars

(***************************************************************************)
(* The path mapper as a state machine.                                     *)
(***************************************************************************)
InitPath ==
    /\ filename \in PageFiles
    /\ outPath = <<>>
    /\ ppc = "ready"
    /\ RenderIdle
    /\ DevIdle

OutputPathForPage ==
    /\ ppc = "ready"
    /\ outPath' = outputPathForPage(relativePath(filename))
    /\ ppc' = "done"
    /\ UNCHANGED <<filename, renderVars, devVars>>

NextPath == OutputPathForPage

SpecPath == InitPath /\ [][NextPath]_vars

(***************************************************************************)
(* Properties of the renderer.                                             *)
(***************************************************************************)
IsPrefix(p, s) == Len(p) <= Len(s) /\ SubSeq(s, 1, Len(p)) = p

IsSuffix(p, s) == EndsWith(s, p)

Contains(s, sub) == \E i \in 1..(Len(s) + 1) : HasAt(s, i, sub)

Rendered == rpc = "done" /\ rendered.ok

\* positions of merged where a substitution token starts
TokenStarts == {i \in 1..Len(merged) : PartialMatch(merged, i).end # 0}

TokenName(i) == PartialMatch(merged, i).name

TokenText(i) == SubSeq(merged, i, PartialMatch(merged, i).end - 1)

\* The token at i comes out as text: the output is the output of the text
\* before the token, then text, then the output of the text after the token.
TokenComesOutAs(i, text) ==
    rendered.html =
        applyTemplates(SubSeq(merged, 1, i - 1), frontmatter)
            \o text
            \o applyTemplates(SubSeq(merged, PartialMatch(merged, i).end, Len(merged)),
                              frontmatter)

\* C3: a token whose identifier is a key of the template store and a key of
\* the metadata is replaced by the store's text, whatever that text is.
C3_PartialTakesPrecedence ==
    Rendered =>
        \A i \in TokenStarts :
            (TokenName(i) \in DOMAIN templateCache /\ TokenName(i) \in DOMAIN frontmatter)
                => TokenComesOutAs(i, templateCache[TokenName(i)])

\* C4: one substitution pass: the text inserted for a token is in the output
\* as it is (a token inside a partial's text or inside a metadata value stays
\* literal), and a title token of the merged text itself is resolved.
C4_SinglePass ==
    Rendered =>
        \A i \in TokenStarts :
            /\ (TokenName(i) \in DOMAIN templateCache /\ templateCache[TokenName(i)] # <<>>)
                    => TokenComesOutAs(i, templateCache[TokenName(i)])
            /\ (TokenName(i) \notin DOMAIN templateCache /\ TokenName(i) \in DOMAIN frontmatter)
                    => TokenComesOutAs(i, frontmatter[TokenName(i)])

\* a partial whose text holds a title token is included, the metadata has a
\* title, and the layout has a title token of its own after it
C4_Witness ==
    /\ Rendered
    /\ S_title \in DOMAIN frontmatter
    /\ S_title \notin DOMAIN templateCache
    /\ S_header \in DOMAIN templateCache
    /\ merged = T_header \o T_title
    /\ rendered.html = templateCache[S_header] \o frontmatter[S_title]
    /\ Contains(rendered.html, T_title)

\* a partial that references itself is included once
C4_WitnessSelfReference ==
    /\ Rendered
    /\ S_title \in DOMAIN templateCache
    /\ Contains(templateCache[S_title], T_title)
    /\ merged = T_title
    /\ rendered.html = templateCache[S_title]

\* C5: a token whose identifier is neither a key of the template store nor a
\* key of the metadata is in the output unchanged.
C5_UnresolvedTokenUnchanged ==
    Rendered =>
        \A i \in TokenStarts :
            (TokenName(i) \notin DOMAIN templateCache /\ TokenName(i) \notin DOMAIN frontmatter)
                => TokenComesOutAs(i, TokenText(i))

\* the layout text with every content placeholder replaced by exactly body
RECURSIVE ContentFilled(_, _, _)
ContentFilled(layoutHtml, body, i) ==
    IF i > Len(layoutHtml) THEN <<>>
    ELSE IF ContentMatchEnd(layoutHtml, i) = 0
         THEN <<layoutHtml[i]>> \o ContentFilled(layoutHtml, body, i + 1)
         ELSE body \o ContentFilled(layoutHtml, body, ContentMatchEnd(layoutHtml, i))

\* C6: every content placeholder of the layout is replaced by exactly the
\* page's HTML fragment.
C6_ContentReplacedVerbatim ==
    Rendered => merged = ContentFilled(templateCache[layoutKeyOf(frontmatter)], htmlBody, 1)

\* the store key the metadata selects: layouts/<layout> when the metadata has
\* a layout key, layouts/default otherwise
SelectedLayoutName ==
    IF S_layout \in DOMAIN frontmatter THEN frontmatter[S_layout] ELSE S_default

SelectedLayoutKey == S_layoutsDir \o SelectedLayoutName

\* C8: render fails with LayoutNotFound, naming the layout and its file,
\* exactly when the selected key is absent from the store, and otherwise
\* renders with the text stored under the selected key.
C8_LayoutSelection ==
    rpc = "done" =>
        IF SelectedLayoutKey \in DOMAIN templateCache
        THEN /\ rendered.ok
             /\ rendered.html =
                    applyTemplates(
                        replaceContent(templateCache[SelectedLayoutKey], htmlBody, 1),
                        frontmatter)
        ELSE /\ ~rendered.ok
             /\ Contains(rendered.message, <<"\"">> \o SelectedLayoutName \o <<"\"">>)
             /\ Contains(rendered.message,
                         <<"s", "r", "c", "/">> \o SelectedLayoutKey \o S_dotHtml)

(***************************************************************************)
(* Properties of the path mapper.                                          *)
(***************************************************************************)
\* C7: <dir>/index.html for the base name index, <dir>/<base>/index.html
\* for any other base name, at any directory depth.
C7_PrettyUrl ==
    ppc = "done" =>
        outPath = IF filename.base = S_index
                  THEN joinSegments(filename.dir \o <<S_indexHtml>>)
                  ELSE joinSegments(filename.dir \o <<filename.base, S_indexHtml>>)

(***************************************************************************)
(* The site.  The partial and the asset are fixed, the pages are fixed     *)
(* during a run, the layout blog.html comes and goes as the author edits.  *)
(***************************************************************************)
DEBOUNCE_MS == 120
MaxEvents == 2
MaxChannels == 1

S_assets == <<"a", "s", "s", "e", "t", "s">>
S_styleCss == <<"s", "t", "y", "l", "e", ".", "c", "s", "s">>

LayoutNames == {S_default, S_blog}
PartialNames == {S_header}
Pages == {"index", "post", "about"}
Channels == 1..MaxChannels

\* src/layouts/<name>.html
layoutFileText(name) ==
    IF name = S_default THEN T_header \o T_content ELSE T_title \o T_content

\* src/partials/<name>.html
partialFileText(name) == <<"<", "h", ">">>

\* src/pages: index.md and about.html (no metadata), blog/post.md (layout: blog)
pageFile(p) ==
    CASE p = "index" -> [dir |-> <<>>, base |-> S_index, ext |-> S_dotMd]
      [] p = "post" -> [dir |-> <<S_blog>>, base |-> S_post, ext |-> S_dotMd]
      [] p = "about" -> [dir |-> <<>>, base |-> S_about, ext |-> S_dotHtml]

pageFrontmatter(p) ==
    IF p = "post" THEN (S_layout :> S_blog) @@ (S_title :> <<"T">>) ELSE <<>>

pageContent(p) ==
    CASE p = "index" -> <<"H", "i">>
      [] p = "post" -> <<"B">>
      [] p = "about" -> <<"A">>

\* cli.js:201: file.path.endsWith(".md")
isMarkdown(p) == pageFile(p).ext = S_dotMd

\* marked.parse of a one-line paragraph of plain text
markedParse(raw) == <<"<", "p", ">">> \o raw \o <<"<", "/", "p", ">", "\n">>

\* path.dirname of a relative path; <<>> is the directory itself
RECURSIVE dirname(_)
dirname(path) ==
    IF path = <<>> THEN <<>>
    ELSE IF path[Len(path)] = "/" THEN SubSeq(path, 1, Len(path) - 1)
    ELSE dirname(SubSeq(path, 1, Len(path) - 1))

\* the directories mkdir(dir, {recursive: true}) makes sure exist
RECURSIVE mkdirRecursive(_)
mkdirRecursive(dir) ==
    IF dir = <<>> THEN {<<>>} ELSE {dir} \cup mkdirRecursive(dirname(dir))

\* cli.js:210: where a page is written
pageOut(p) ==
    LET rel == relativePath(pageFile(p))
    IN  IF EndsWith(rel, S_dotHtml) THEN rel ELSE outputPathForPage(rel)

assetOut == pathJoin(S_assets, S_styleCss)

(***************************************************************************)
(* build(): one record per call.  Every asynchronous file system call is   *)
(* one step, taken when the call completes; the code that runs up to the   *)
(* next await belongs to the same step.                                    *)
(***************************************************************************)
newBuild(kind, burst) ==
    [kind |-> kind,             \* "initial" (cli.js:287) or "rebuild" (cli.js:277)
     status |-> "running",      \* "running" | "ok" | "failed": the promise of build()
     phase |-> "clean",         \* the await the build is at
     pending |-> {},            \* template files whose readFile is in flight
     pagePc |-> [p \in Pages |-> "none"],
     html |-> [p \in Pages |-> <<>>],
     assetsPc |-> "none",
     burst |-> burst,           \* history: the burst whose timer started it
     seen |-> 0,                \* history: the change events handled before it started
     audience |-> {},           \* history: channels open when it succeeded
     notified |-> <<>>]         \* history: channels triggerReload wrote to

BuildIds == 1..Len(builds)

failed(bld) == [bld EXCEPT !.status = IF @ = "running" THEN "failed" ELSE @]

\* Promise.all of cli.js:260 resolves
succeeds(bld) ==
    /\ bld.status = "running"
    /\ bld.phase = "tasks"
    /\ \A p \in Pages : bld.pagePc[p] \in {"done", "none"}
    /\ bld.assetsPc = "done"

\* a variant that writes to no channel
triggerReloadSilent(rcv, clients) == rcv

\* reloadClients.forEach((res) => res.write(...))
RECURSIVE triggerReload(_, _)
triggerReload(rcv, clients) ==
    IF clients = <<>> THEN rcv
    ELSE triggerReload([rcv EXCEPT ![Head(clients)] = @ + 1], Tail(clients))

\* The end of a step of build b that leaves it as bld: when the step settles
\* the promise of build(), its continuation runs in the same step (the
\* reload broadcast of cli.js:278, the rest of dev() after cli.js:287, the
\* process.exit of cli.js:26-29).
settle(b, bld) ==
    /\ proc \in {"build", "dev"}
    /\ proc' = IF proc = "dev" THEN proc
               ELSE IF succeeds(bld) THEN "exit0"
               ELSE IF bld.status = "failed" THEN "exit1"
               ELSE proc
    /\ IF succeeds(bld)
       THEN /\ builds' = [builds EXCEPT ![b] =
                    [bld EXCEPT !.status = "ok",
                                !.audience = {c \in Channels : channels[c] = "open"},
                                !.notified = IF bld.kind = "rebuild" THEN reloadClients ELSE <<>>]]
            /\ received' = IF bld.kind = "rebuild"
                           THEN triggerReload(received, reloadClients)
                           ELSE received
            /\ lastGood' = dist'
       ELSE /\ builds' = [builds EXCEPT ![b] = bld]
            /\ UNCHANGED <<received, lastGood>>
    /\ serving' = (serving \/ (proc = "dev" /\ bld.kind = "initial"
                                    /\ (succeeds(bld) \/ bld.status = "failed")))
    /\ UNCHANGED <<callVars, pathVars, pages, srcLayouts, timers, rebuildTimer, reloadClients,
                   channels, nEvents, sinceLast, bursts>>

\* await cleanDist(); then loadTemplates() resets the cache and lists layouts
CleanDist(b) ==
    /\ builds[b].phase = "clean"
    /\ dist' = <<>>
    /\ distDirs' = {}
    /\ templateCache' = <<>>
    /\ storeWriters' = {b}
    /\ settle(b, [builds[b] EXCEPT !.phase = "listLayouts"])

\* readFilesRecursive(LAYOUTS) returns; the reads of the listed files start
ListLayouts(b) ==
    /\ builds[b].phase = "listLayouts"
    /\ settle(b, IF srcLayouts = {}
                 THEN [builds[b] EXCEPT !.phase = "listPartials"]
                 ELSE [builds[b] EXCEPT !.phase = "readLayouts", !.pending = srcLayouts])
    /\ UNCHANGED <<templateCache, storeWriters, dist, distDirs>>

\* the phase after the last template read of a phase, unless the load failed
afterRead(bld, nextPhase) ==
    IF bld.pending = {} /\ bld.status = "running"
    THEN [bld EXCEPT !.phase = nextPhase,
                     !.assetsPc = IF nextPhase = "listPages" THEN "copy" ELSE @]
    ELSE bld

\* fs.readFile of a layout returns (cli.js:83-85); a file removed since the
\* listing makes it throw
ReadLayout(b, f) ==
    /\ builds[b].phase = "readLayouts"
    /\ f \in builds[b].pending
    /\ LET rest == [builds[b] EXCEPT !.pending = @ \ {f}]
       IN  IF f \in srcLayouts
           THEN /\ templateCache' = ((S_layoutsDir \o f) :> layoutFileText(f)) @@ templateCache
                /\ storeWriters' = storeWriters \cup {b}
                /\ settle(b, afterRead(rest, "listPartials"))
           ELSE /\ UNCHANGED <<templateCache, storeWriters>>
                /\ settle(b, failed(rest))
    /\ UNCHANGED <<dist, distDirs>>

\* fs.readFile of a layout that is on disk fails with an error other than
\* ENOENT (EACCES, EIO): cli.js:83 throws
ReadLayoutError(b, f) ==
    /\ builds[b].phase = "readLayouts"
    /\ f \in builds[b].pending
    /\ f \in srcLayouts
    /\ settle(b, failed([builds[b] EXCEPT !.pending = @ \ {f}]))
    /\ UNCHANGED <<templateCache, storeWriters, dist, distDirs>>

\* readFilesRecursive(PARTIALS) returns
ListPartials(b) ==
    /\ builds[b].phase = "listPartials"
    /\ settle(b, [builds[b] EXCEPT !.phase = "readPartials", !.pending = PartialNames])
    /\ UNCHANGED <<templateCache, storeWriters, dist, distDirs>>

\* fs.readFile of a partial returns (cli.js:94-96); after the last one
\* build() starts buildPagesTask and copyAssetsTask
ReadPartial(b, f) ==
    /\ builds[b].phase = "readPartials"
    /\ f \in builds[b].pending
    /\ templateCache' = (f :> partialFileText(f)) @@ templateCache
    /\ storeWriters' = storeWriters \cup {b}
    /\ settle(b, afterRead([builds[b] EXCEPT !.pending = @ \ {f}], "listPages"))
    /\ UNCHANGED <<dist, distDirs>>

\* readFilesRecursive(PAGES) returns; one task per page starts
ListPages(b) ==
    /\ builds[b].phase = "listPages"
    /\ settle(b, [builds[b] EXCEPT
                    !.phase = "tasks",
                    !.pagePc = [p \in Pages |-> IF p \in pages THEN "read" ELSE "none"]])
    /\ UNCHANGED <<templateCache, storeWriters, dist, distDirs>>

\* fs.readFile of the page returns; front matter, markdown, renderPage
PageRead(b, p) ==
    /\ builds[b].pagePc[p] = "read"
    /\ LET r == renderPage(IF isMarkdown(p) THEN markedParse(pageContent(p))
                                            ELSE pageContent(p),
                            pageFrontmatter(p))
       IN  settle(b, IF r.ok
                     THEN [builds[b] EXCEPT !.pagePc[p] = "mkdir", !.html[p] = r.html]
                     ELSE failed([builds[b] EXCEPT !.pagePc[p] = "failed"]))
    /\ UNCHANGED <<templateCache, storeWriters, dist, distDirs>>

\* fs.mkdir(outDir, {recursive: true}) returns
PageMkdir(b, p) ==
    /\ builds[b].pagePc[p] = "mkdir"
    /\ distDirs' = distDirs \cup mkdirRecursive(dirname(pageOut(p)))
    /\ settle(b, [builds[b] EXCEPT !.pagePc[p] = "write"])
    /\ UNCHANGED <<templateCache, storeWriters, dist>>

\* fs.writeFile returns; it throws when the directory is gone again
PageWrite(b, p) ==
    /\ builds[b].pagePc[p] = "write"
    /\ IF dirname(pageOut(p)) \in distDirs
       THEN /\ dist' = (pageOut(p) :> [text |-> builds[b].html[p], build |-> b]) @@ dist
            /\ settle(b, [builds[b] EXCEPT !.pagePc[p] = "done"])
       ELSE /\ dist' = dist
            /\ settle(b, failed([builds[b] EXCEPT !.pagePc[p] = "failed"]))
    /\ UNCHANGED <<templateCache, storeWriters, distDirs>>

\* copyAssetsTask: the assets directory holds one file
AssetsCopy(b) ==
    /\ builds[b].assetsPc = "copy"
    /\ distDirs' = distDirs \cup mkdirRecursive(S_assets)
    /\ dist' = (assetOut :> [text |-> <<"c", "s", "s">>, build |-> b]) @@ dist
    /\ settle(b, [builds[b] EXCEPT !.assetsPc = "done"])
    /\ UNCHANGED <<templateCache, storeWriters>>

(***************************************************************************)
(* The dev loop: watcher events, the debounce timer, reload channels.      *)
(* Time is counted in ms.  A timeout whose delay has elapsed runs before   *)
(* any watcher event that arrives later is handled.                        *)
(***************************************************************************)
\* the amounts by which time is seen to advance
Delays == {DEBOUNCE_MS - 1}

PendingTimers == DOMAIN timers

DueTimers == {t \in PendingTimers : timers[t].remaining = 0}

without(f, x) == [y \in (DOMAIN f) \ {x} |-> f[y]]

\* clearTimeout(rebuildTimer); a timeout that has run is no longer pending
clearTimeout(tm, id) == IF id \in DOMAIN tm THEN without(tm, id) ELSE tm

\* a variant that leaves the previous timeout pending
scheduleWithoutClear(tm, last, id, burst) ==
    (id :> [remaining |-> DEBOUNCE_MS, burst |-> burst]) @@ tm

\* a variant that returns after clearing a pending timeout
scheduleClearOnly(tm, last, id, burst) ==
    IF last \in DOMAIN tm THEN clearTimeout(tm, last)
    ELSE (id :> [remaining |-> DEBOUNCE_MS, burst |-> burst]) @@ tm

\* scheduleDebouncedRebuild: the pending timeouts after the call that sets
\* the timeout id (burst is history)
scheduleDebouncedRebuild(tm, last, id, burst) ==
    (id :> [remaining |-> DEBOUNCE_MS, burst |-> burst])
        @@ (IF last # 0 THEN clearTimeout(tm, last) ELSE tm)

NoBuildRunning == \A b \in BuildIds : builds[b].status # "running"

\* The author changes the source tree and chokidar reports it (cli.js:338).
\* An event less than DEBOUNCE_MS after the previous one continues its burst.
ChangeEvent(kind) ==
    /\ serving
    /\ nEvents < MaxEvents
    /\ DueTimers = {}
    /\ srcLayouts' = IF kind = "touch" THEN srcLayouts
                     ELSE IF S_blog \in srcLayouts THEN srcLayouts \ {S_blog}
                     ELSE srcLayouts \cup {S_blog}
    /\ LET continues == bursts # <<>> /\ sinceLast < DEBOUNCE_MS
           burst == IF continues THEN Len(bursts) ELSE Len(bursts) + 1
       IN  /\ bursts' = IF continues
                        THEN [bursts EXCEPT ![burst].events = @ + 1]
                        ELSE Append(bursts, [events |-> 1, clean |-> NoBuildRunning])
           /\ timers' = scheduleDebouncedRebuild(timers, rebuildTimer, nEvents + 1, burst)
    /\ rebuildTimer' = nEvents + 1
    /\ nEvents' = nEvents + 1
    /\ sinceLast' = 0
    /\ UNCHANGED <<renderVars, pathVars, proc, pages, dist, distDirs, builds, reloadClients,
                   channels, received, serving, lastGood>>

Min(a, b) == IF a <= b THEN a ELSE b

\* time passes, no further than the next timeout
Advance(d) ==
    /\ serving
    /\ PendingTimers # {} \/ sinceLast < DEBOUNCE_MS
    /\ d > 0
    /\ \A t \in PendingTimers : timers[t].remaining >= d
    /\ timers' = [t \in PendingTimers |-> [timers[t] EXCEPT !.remaining = @ - d]]
    /\ sinceLast' = Min(sinceLast + d, DEBOUNCE_MS)
    /\ UNCHANGED <<renderVars, pathVars, proc, pages, srcLayouts, dist, distDirs, builds, rebuildTimer,
                   reloadClients, channels, received, serving, nEvents, bursts, lastGood>>

\* the timeout callback starts build() (cli.js:274-277)
TimerFire(t) ==
    /\ t \in DueTimers
    /\ timers' = without(timers, t)
    /\ builds' = Append(builds, [newBuild("rebuild", timers[t].burst) EXCEPT !.seen = nEvents])
    /\ UNCHANGED <<renderVars, pathVars, proc, pages, srcLayouts, dist, distDirs, rebuildTimer,
                   reloadClients, channels, received, serving, nEvents, sinceLast, bursts,
                   lastGood>>

\* a variant whose test is r === res
RECURSIVE filterKeep(_, _)
filterKeep(clients, c) ==
    IF clients = <<>> THEN <<>>
    ELSE IF Head(clients) # c THEN filterKeep(Tail(clients), c)
    ELSE <<Head(clients)>> \o filterKeep(Tail(clients), c)

\* reloadClients.filter((r) => r !== res)
RECURSIVE filterOut(_, _)
filterOut(clients, c) ==
    IF clients = <<>> THEN <<>>
    ELSE IF Head(clients) = c THEN filterOut(Tail(clients), c)
    ELSE <<Head(clients)>> \o filterOut(Tail(clients), c)

\* a viewer requests /livereload (cli.js:151-159)
Connect(c) ==
    /\ serving
    /\ channels[c] = "new"
    /\ channels' = [channels EXCEPT ![c] = "open"]
    /\ reloadClients' = Append(reloadClients, c)
    /\ UNCHANGED <<renderVars, pathVars, proc, pages, srcLayouts, dist, distDirs, builds, timers,
                   rebuildTimer, received, serving, nEvents, sinceLast, bursts, lastGood>>

\* the request's close event (cli.js:160-162)
Close(c) ==
    /\ channels[c] = "open"
    /\ channels' = [channels EXCEPT ![c] = "closed"]
    /\ reloadClients' = filterOut(reloadClients, c)
    /\ UNCHANGED <<renderVars, pathVars, proc, pages, srcLayouts, dist, distDirs, builds, timers,
                   rebuildTimer, received, serving, nEvents, sinceLast, bursts, lastGood>>

\* node cli.js dev: dev() has called build() for the initial build.  The
\* site has the page blog/post.md.
Init ==
    /\ templateCache = <<>>
    /\ storeWriters = {}
    /\ RenderCallIdle
    /\ PathIdle
    /\ proc = "dev"
    /\ pages = {"post"}
    /\ srcLayouts \in {{}, {S_blog}}
    /\ dist = <<>>
    /\ distDirs = {}
    /\ builds = <<newBuild("initial", 0)>>
    /\ timers = <<>>
    /\ rebuildTimer = 0
    /\ reloadClients = <<>>
    /\ channels = [c \in Channels |-> "new"]
    /\ received = [c \in Channels |-> 0]
    /\ serving = FALSE
    /\ nEvents = 0
    /\ sinceLast = DEBOUNCE_MS
    /\ bursts = <<>>
    /\ lastGood = <<>>

Next ==
    \/ \E b \in BuildIds : CleanDist(b)
    \/ \E b \in BuildIds : ListLayouts(b)
    \/ \E b \in BuildIds, f \in LayoutNames : ReadLayout(b, f)
    \/ \E b \in BuildIds : ListPartials(b)
    \/ \E b \in BuildIds, f \in PartialNames : ReadPartial(b, f)
    \/ \E b \in BuildIds : ListPages(b)
    \/ \E b \in BuildIds, p \in Pages : PageRead(b, p)
    \/ \E b \in BuildIds, p \in Pages : PageMkdir(b, p)
    \/ \E b \in BuildIds, p \in Pages : PageWrite(b, p)
    \/ \E b \in BuildIds : AssetsCopy(b)
    \/ \E kind \in {"touch", "toggle"} : ChangeEvent(kind)
    \/ \E d \in Delays \cup {timers[t].remaining : t \in PendingTimers} : Advance(d)
    \/ \E t \in PendingTimers : TimerFire(t)
    \/ \E c \in Channels : Connect(c)
    \/ \E c \in Channels : Close(c)

Spec == Init /\ [][Next]_vars

\* The dev loop with the scheduling Node gives: time passes, and a timeout
\* whose delay has elapsed runs.
SpecLive ==
    /\ Init
    /\ [][Next]_vars
    /\ WF_vars(\E d \in Delays \cup {timers[t].remaining : t \in PendingTimers} : Advance(d))
    /\ WF_vars(\E t \in PendingTimers : TimerFire(t))

(***************************************************************************)
(* node cli.js build: one build() call, then process.exit.  The site has   *)
(* the pages index.md, about.html and blog/post.md; the author may edit    *)
(* the layouts while the build runs, and a read of a layout may fail.      *)
(***************************************************************************)
InitBuild ==
    /\ templateCache = <<>>
    /\ storeWriters = {}
    /\ RenderCallIdle
    /\ PathIdle
    /\ proc = "build"
    /\ pages = Pages
    /\ srcLayouts \in {{}, {S_default}, LayoutNames}
    /\ dist = <<>>
    /\ distDirs = {}
    /\ builds = <<newBuild("initial", 0)>>
    /\ timers = <<>>
    /\ rebuildTimer = 0
    /\ reloadClients = <<>>
    /\ channels = [c \in Channels |-> "new"]
    /\ received = [c \in Channels |-> 0]
    /\ serving = FALSE
    /\ nEvents = 0
    /\ sinceLast = DEBOUNCE_MS
    /\ bursts = <<>>
    /\ lastGood = <<>>

\* the author adds or removes layouts/blog.html; nothing watches
EditSource ==
    /\ proc = "build"
    /\ nEvents < MaxEvents
    /\ nEvents' = nEvents + 1
    /\ srcLayouts' = IF S_blog \in srcLayouts THEN srcLayouts \ {S_blog}
                     ELSE srcLayouts \cup {S_blog}
    /\ UNCHANGED <<renderVars, pathVars, proc, pages, dist, distDirs, builds, timers,
                   rebuildTimer, reloadClients, channels, received, serving, sinceLast,
                   bursts, lastGood>>

NextBuild ==
    \/ \E b \in BuildIds : CleanDist(b)
    \/ \E b \in BuildIds : ListLayouts(b)
    \/ \E b \in BuildIds, f \in LayoutNames : ReadLayout(b, f)
    \/ \E b \in BuildIds, f \in LayoutNames : ReadLayoutError(b, f)
    \/ \E b \in BuildIds : ListPartials(b)
    \/ \E b \in BuildIds, f \in PartialNames : ReadPartial(b, f)
    \/ \E b \in BuildIds : ListPages(b)
    \/ \E b \in BuildIds, p \in Pages : PageRead(b, p)
    \/ \E b \in BuildIds, p \in Pages : PageMkdir(b, p)
    \/ \E b \in BuildIds, p \in Pages : PageWrite(b, p)
    \/ \E b \in BuildIds : AssetsCopy(b)
    \/ EditSource

SpecBuild == InitBuild /\ [][NextBuild]_vars

(***************************************************************************)
(* Properties of the dev loop and of the build.                            *)
(***************************************************************************)
RebuildsOf(k) == {b \in BuildIds : builds[b].kind = "rebuild" /\ builds[b].burst = k}

\* the debounce window after the last event of burst k has passed
BurstOver(k) ==
    \/ k < Len(bursts)
    \/ sinceLast = DEBOUNCE_MS /\ DueTimers = {}

RECURSIVE Count(_, _)
Count(c, seq) ==
    IF seq = <<>> THEN 0
    ELSE (IF Head(seq) = c THEN 1 ELSE 0) + Count(c, Tail(seq))

\* C1: a burst of change events that begins with no build running, each
\* event less than DEBOUNCE_MS after the previous one, starts no build
\* before its window has passed and exactly one build then; when that build
\* succeeds, every channel open at that moment is sent exactly one reload
\* event.
C1_OneBuildPerBurst ==
    \A k \in 1..Len(bursts) :
        bursts[k].clean =>
            /\ Cardinality(RebuildsOf(k)) = IF BurstOver(k) THEN 1 ELSE 0
            /\ \A b \in RebuildsOf(k) :
                    builds[b].status = "ok" =>
                        \A c \in builds[b].audience : Count(c, builds[b].notified) = 1

\* a burst of two or more events has had its one build, which succeeded and
\* sent one reload event to the open channel
C1_Witness ==
    \E k \in 1..Len(bursts) :
        /\ bursts[k].clean
        /\ bursts[k].events >= 2
        /\ BurstOver(k)
        /\ \E b \in RebuildsOf(k) :
            /\ builds[b].status = "ok"
            /\ builds[b].audience # {}
            /\ \A c \in builds[b].audience : received[c] = 1

RunningBuilds == {b \in BuildIds : builds[b].status = "running"}

\* C2: at most one build is in progress at any time.
C2_OneBuildAtATime == Cardinality(RunningBuilds) <= 1

\* no step of build b is left to run
stopped(b) ==
    \/ proc \in {"exit0", "exit1"}
    \/ /\ builds[b].status # "running"
       /\ builds[b].pending = {}
       /\ \A p \in Pages : builds[b].pagePc[p] \notin {"read", "mkdir", "write"}
       /\ builds[b].assetsPc # "copy"

\* C9: once the tasks of a build in which a page failed have stopped, the
\* build has failed and the output directory holds no page it rendered.
C9_NoPartialOutput ==
    \A b \in BuildIds :
        ((\E p \in Pages : builds[b].pagePc[p] = "failed") /\ stopped(b)) =>
            /\ builds[b].status = "failed"
            /\ \A p \in Pages :
                ~(pageOut(p) \in DOMAIN dist /\ dist[pageOut(p)].build = b)

\* C10: after a failed rebuild the output directory still holds every file
\* of the most recent successful build, as that build left it.
C10_PreviousOutputKept ==
    (/\ lastGood # <<>>
     /\ builds[Len(builds)].kind = "rebuild"
     /\ builds[Len(builds)].status = "failed") =>
        \A path \in DOMAIN lastGood :
            path \in DOMAIN dist /\ dist[path] = lastGood[path]

\* a rebuild completes successfully in this step
RebuildSucceeds ==
    \E b \in BuildIds :
        /\ builds[b].kind = "rebuild"
        /\ builds[b].status = "running"
        /\ builds'[b].status = "ok"

\* C11: a step in which a rebuild completes successfully pushes exactly one
\* reload event to every channel open at that moment and none to any other
\* channel; no other step, the failure of a rebuild included, pushes a
\* reload event to any channel.
C11_ReloadExactlyOnSuccess ==
    [][\A c \in Channels :
            received'[c] = received[c]
                + (IF RebuildSucceeds /\ channels[c] = "open" THEN 1 ELSE 0)]_vars

\* one rebuild has failed and pushed nothing, another has succeeded and
\* pushed its one event to the open channel
C11_Witness ==
    \E b1, b2 \in BuildIds :
        /\ builds[b1].kind = "rebuild" /\ builds[b1].status = "failed"
        /\ builds[b2].kind = "rebuild" /\ builds[b2].status = "ok"
        /\ builds[b2].audience # {}
        /\ \A c \in builds[b2].audience : received[c] = 1

\* a rebuild fails in this step
RebuildFails ==
    \E b \in BuildIds :
        /\ builds[b].kind = "rebuild"
        /\ builds[b].status = "running"
        /\ builds'[b].status = "failed"

\* C12: a build failure leaves the dev loop alive: once the initial build
\* has failed the server and the watcher are started, the step in which a
\* rebuild fails leaves no build running and no timeout pending, and a
\* change event leaves its timeout pending.
C12_FailureKeepsLoopAlive ==
    [][/\ proc' = "dev"
       /\ builds'[1].status = "failed" => serving'
       /\ RebuildFails => (NoBuildRunning /\ PendingTimers = {})'
       /\ nEvents' > nEvents => rebuildTimer' \in DOMAIN timers']_vars

\* build b renders page p in this step
Renders(b, p) == builds[b].pagePc[p] = "read" /\ builds'[b].pagePc[p] # "read"

\* build b has rendered a page and build() has not settled yet
InRenderWindow(b) ==
    /\ builds[b].status = "running"
    /\ builds[b].phase = "tasks"
    /\ \E p \in Pages : builds[b].pagePc[p] \notin {"none", "read"}

\* C13: every page render of a build reads a store that this build, and no
\* other, has reset and loaded, and no step changes the store while a build
\* is between its first render and its end.
C13_StoreLoadedAndStable ==
    [][\A b \in BuildIds :
            /\ \A p \in Pages : Renders(b, p) => storeWriters = {b}
            /\ InRenderWindow(b) =>
                    (templateCache' = templateCache /\ storeWriters' = storeWriters)]_vars

\* C14: every page a build has written, with extension .md or .html, is in
\* the output directory at the path outputPathForPage gives for its relative
\* source path, with the text the build rendered for it.
C14_PagesWrittenViaPathMapper ==
    \A p \in Pages :
        builds[1].pagePc[p] = "done" =>
            LET out == outputPathForPage(relativePath(pageFile(p)))
            IN  /\ out \in DOMAIN dist
                /\ dist[out].text = builds[1].html[p]

\* C15: reloadClients holds each channel that has connected and whose close
\* has not been processed exactly once and no other channel, and no step
\* writes a reload event to a channel that is not open.
C15_SubscriberSet ==
    /\ [](\A c \in Channels :
            Count(c, reloadClients) = IF channels[c] = "open" THEN 1 ELSE 0)
    /\ [][\A c \in Channels : received'[c] # received[c] => channels[c] = "open"]_vars

\* a channel received the reload event of one rebuild, closed, and a second
\* rebuild succeeded afterwards without writing to it
C15_Witness ==
    \E c \in Channels :
        /\ channels[c] = "closed"
        /\ Count(c, reloadClients) = 0
        /\ received[c] = 1
        /\ \E b1, b2 \in BuildIds :
            /\ b1 < b2
            /\ builds[b1].kind = "rebuild" /\ builds[b1].status = "ok"
            /\ c \in builds[b1].audience
            /\ builds[b2].kind = "rebuild" /\ builds[b2].status = "ok"
            /\ c \notin builds[b2].audience

\* the read of layout f returns in this step
LayoutReadReturns(f) ==
    /\ builds[1].phase = "readLayouts"
    /\ f \in builds[1].pending
    /\ f \notin builds'[1].pending

\* C16: listing a layouts directory without entries adds nothing to the
\* store and does not fail the load; the read of a layout removed since the
\* listing adds nothing and does not fail the load; a read that fails on a
\* layout that is on disk fails the load and the build.
C16_LoadToleratesMissing ==
    [][/\ (builds[1].phase = "listLayouts" /\ srcLayouts = {}) =>
                (builds'[1].status = "running" /\ templateCache' = templateCache)
       /\ \A f \in LayoutNames :
            LayoutReadReturns(f) =>
                IF f \notin srcLayouts
                THEN builds'[1].status = builds[1].status /\ templateCache' = templateCache
                ELSE (S_layoutsDir \o f) \notin DOMAIN templateCache' =>
                        builds'[1].status = "failed"]_vars

\* build b succeeds in this step
Succeeds(b) == builds[b].status = "running" /\ builds'[b].status = "ok"

\* the pages build b has listed and written
WrittenBy(b) == {p \in Pages : builds'[b].pagePc[p] = "done"}

\* C17: when a build succeeds the output directory holds exactly the pages
\* that build rendered and the asset it copied, each as that build wrote it,
\* and cleaning the output directory, present or absent, does not fail the
\* build.
C17_OutputFullyReplaced ==
    [][\A b \in BuildIds :
            /\ Succeeds(b) =>
                    /\ DOMAIN dist' = {pageOut(p) : p \in WrittenBy(b)} \cup {assetOut}
                    /\ \A path \in DOMAIN dist' : dist'[path].build = b
                    /\ \A p \in WrittenBy(b) : dist'[pageOut(p)].text = builds'[b].html[p]
            /\ (builds[b].phase = "clean" /\ builds'[b].phase # "clean") =>
                    (builds'[b].status = "running" /\ dist' = <<>>)]_vars

\* C18: for every change event, whatever the builds are doing when it
\* arrives, a build eventually starts after it.
C18_NoEventLost ==
    \A n \in 1..MaxEvents :
        (nEvents >= n) ~> (\E b \in BuildIds : builds[b].seen >= n)

\* the initial build failed, so every change event came after a failed
\* build; one of them arrived while a build was running, and a build has
\* started after the last of them
C18_Witness ==
    /\ builds[1].status = "failed"
    /\ nEvents = MaxEvents
    /\ \E k \in 1..Len(bursts) : ~bursts[k].clean
    /\ \E b \in BuildIds : builds[b].seen = nEvents

\* a reload event reaches some channel in this step
ReloadBroadcast == \E c \in Channels : received'[c] # received[c]

\* C19: when a reload event is broadcast no build is in progress and the
\* output directory holds every page and the asset of the build whose success
\* is broadcast.
C19_ReloadOnlyWhenOutputComplete ==
    [][ReloadBroadcast =>
            /\ RunningBuilds' = {}
            /\ \A b \in BuildIds :
                    Succeeds(b) =>
                        /\ assetOut \in DOMAIN dist'
                        /\ \A p \in WrittenBy(b) :
                                /\ pageOut(p) \in DOMAIN dist'
                                /\ dist'[pageOut(p)].text = builds'[b].html[p]]_vars

====
